---- MODULE Spec2Model ----
(***************************************************************************)
(* tst_map (src/tst_map.h): a string-keyed map on a ternary search tree.   *)
(*                                                                         *)
(* A node pointer is NULL (<<>>) or <<node>>, node a record with the       *)
(* fields of tnode.  A payload pointer held by a node (pdata) is NULL or   *)
(* <<value>>.  A payload pointer handed out to the caller (pointer pos) is *)
(* NULL or <<path>>, path the sequence of links from the root to the node  *)
(* that owns the payload.  A C string is the sequence of its characters;   *)
(* reading it at its end yields the terminator NUL.                        *)
(***************************************************************************)
EXTENDS Integers, Sequences, FiniteSets, TLC

VARIABLES root_, size_, m, call, c, pc

vars == <<root_, size_, m, call, c, pc>>

(* ---------------- constants of the program ---------------- *)

\* the terminator of a C string
NUL == 0
\* the wildcard of pmsearch, '.'
Wildcard == 46
\* T(), the default-constructed payload (T = int)
DefaultT == 0

NULL == <<>>

(* ---------------- bounds of the model ---------------- *)

\* longest key the caller passes; a search pattern may be one longer
MaxLen == 2
\* nodes the heap holds, over both containers
MaxNodes == 3
\* largest mismatch budget passed to nearsearch
MaxD == 2

\* characters of the keys: 'a', 'b'
Chars == {97, 98}
\* characters of the search patterns: '.', 'a', 'b'
PatChars == Chars \cup {Wildcard}
\* payload values the caller passes
Vals == {0, 1}

\* the keys and the search patterns the caller passes
AllKeys == UNION {[1..n -> Chars] : n \in 0..MaxLen}
Patterns == UNION {[1..n -> PatChars] : n \in 0..(MaxLen + 1)}

(* ---------------- strings ---------------- *)

\* *s
Ch(s) == IF s = <<>> THEN NUL ELSE Head(s)

\* s+1, for a string read at or before its terminator
Next1(s) == IF s = <<>> THEN <<>> ELSE Tail(s)

__strlen(s) == Len(s)

(* ---------------- nodes ---------------- *)

tnode(ch) ==
  [splitchar |-> ch, lokid |-> NULL, hikid |-> NULL, eqkid |-> NULL,
   pdata |-> NULL]

\* Comp = std::less<Ch>
comp_(a, b) == a < b

\* !comp_(a, b) && !comp_(b, a)
equiv(a, b) == ~comp_(a, b) /\ ~comp_(b, a)

\* pos seen from the parent, given pos seen from the child reached by link
Via(link, pos) == IF pos = NULL THEN NULL ELSE <<(<<link>> \o pos[1])>>

RECURSIVE NodeCount(_)
\* the nodes of the tree of p
NodeCount(p) ==
  IF p = NULL THEN 0
  ELSE 1 + NodeCount(p[1].lokid) + NodeCount(p[1].eqkid)
         + NodeCount(p[1].hikid)

(* ---------------- insert ---------------- *)

\* Store with "data already exist, just update" left out
Store_keep(n, t, size) ==
  IF n.pdata # NULL
  THEN [n |-> n, size |-> size]
  ELSE [n |-> [n EXCEPT !.pdata = <<t>>], size |-> size + 1]

\* arrive end, save data: the node after the store, and size_ after it
Store(n, t, size) ==
  IF n.pdata # NULL
  THEN [n |-> [n EXCEPT !.pdata = <<t>>], size |-> size]
  ELSE [n |-> [n EXCEPT !.pdata = <<t>>], size |-> size + 1]

RECURSIVE __insert(_, _, _, _)
\* [p |-> the returned node pointer, pos |-> pos, size |-> size_]
__insert(p, s, t, size) ==
  IF Ch(s) = NUL THEN [p |-> p, pos |-> NULL, size |-> size]
  ELSE
    LET n == IF p = NULL THEN tnode(Ch(s)) ELSE p[1] IN
    IF comp_(Ch(s), n.splitchar)
    THEN LET r == __insert(n.lokid, s, t, size) IN
         [p |-> <<[n EXCEPT !.lokid = r.p]>>, pos |-> Via("lokid", r.pos),
          size |-> r.size]
    ELSE IF equiv(Ch(s), n.splitchar)
    THEN IF Ch(Next1(s)) = NUL
         THEN LET st == Store(n, t, size) IN
              [p |-> <<st.n>>, pos |-> <<(<<>>)>>, size |-> st.size]
         ELSE LET r == __insert(n.eqkid, Next1(s), t, size) IN
              [p |-> <<[n EXCEPT !.eqkid = r.p]>>,
               pos |-> Via("eqkid", r.pos), size |-> r.size]
    ELSE LET r == __insert(n.hikid, s, t, size) IN
         [p |-> <<[n EXCEPT !.hikid = r.p]>>, pos |-> Via("hikid", r.pos),
          size |-> r.size]

(* ---------------- find ---------------- *)

RECURSIVE find_eager(_, _)
\* find testing for the end of the string before it compares the character
find_eager(p, s) ==
  IF p = NULL THEN NULL
  ELSE IF Ch(s) = NUL THEN p[1].pdata
  ELSE IF comp_(Ch(s), p[1].splitchar) THEN find_eager(p[1].lokid, s)
  ELSE IF equiv(Ch(s), p[1].splitchar)
  THEN IF Ch(Next1(s)) = NUL THEN p[1].pdata
       ELSE find_eager(p[1].eqkid, Next1(s))
  ELSE find_eager(p[1].hikid, s)

RECURSIVE find(_, _)
\* the loop of find from node p with s left to read: p->pdata or 0
find(p, s) ==
  IF p = NULL THEN NULL
  ELSE IF comp_(Ch(s), p[1].splitchar) THEN find(p[1].lokid, s)
  ELSE IF equiv(Ch(s), p[1].splitchar)
  THEN IF Ch(Next1(s)) = NUL THEN p[1].pdata
       ELSE find(p[1].eqkid, Next1(s))
  ELSE find(p[1].hikid, s)

(* ---------------- operator[] ---------------- *)

\* StoreDefault with ++size_ left out
StoreDefault_nosize(n, size) ==
  IF n.pdata = NULL
  THEN [n |-> [n EXCEPT !.pdata = <<DefaultT>>], size |-> size]
  ELSE [n |-> n, size |-> size]

\* save data: pdata available
StoreDefault(n, size) ==
  IF n.pdata = NULL
  THEN [n |-> [n EXCEPT !.pdata = <<DefaultT>>], size |-> size + 1]
  ELSE [n |-> n, size |-> size]

RECURSIVE __insert_index(_, _, _)
\* the __insert of operator[]: [p |-> ..., pos |-> pos, size |-> size_]
__insert_index(p, s, size) ==
  IF Ch(s) = NUL THEN [p |-> p, pos |-> NULL, size |-> size]
  ELSE
    LET n == IF p = NULL THEN tnode(Ch(s)) ELSE p[1] IN
    IF comp_(Ch(s), n.splitchar)
    THEN LET r == __insert_index(n.lokid, s, size) IN
         [p |-> <<[n EXCEPT !.lokid = r.p]>>, pos |-> Via("lokid", r.pos),
          size |-> r.size]
    ELSE IF equiv(Ch(s), n.splitchar)
    THEN IF Ch(Next1(s)) = NUL
         THEN LET st == StoreDefault(n, size) IN
              [p |-> <<st.n>>, pos |-> <<(<<>>)>>, size |-> st.size]
         ELSE LET r == __insert_index(n.eqkid, Next1(s), size) IN
              [p |-> <<[n EXCEPT !.eqkid = r.p]>>,
               pos |-> Via("eqkid", r.pos), size |-> r.size]
    ELSE LET r == __insert_index(n.hikid, s, size) IN
         [p |-> <<[n EXCEPT !.hikid = r.p]>>, pos |-> Via("hikid", r.pos),
          size |-> r.size]

(* ---------------- remove ---------------- *)

\* Detach with --size_ left out
Detach_nosize(n, size) == [n |-> [n EXCEPT !.pdata = NULL], size |-> size]

\* Detach that prunes the subtree of the longer keys with the payload
Detach_prune(n, size) ==
  [n |-> [n EXCEPT !.pdata = NULL, !.eqkid = NULL], size |-> size - 1]

\* delete p->pdata; --size_; p->pdata = 0
Detach(n, size) == [n |-> [n EXCEPT !.pdata = NULL], size |-> size - 1]

RECURSIVE remove(_, _, _)
\* the loop of remove from node p with s left to read:
\* [p |-> the subtree after it, ret |-> the result, size |-> size_]
remove(p, s, size) ==
  IF p = NULL THEN [p |-> p, ret |-> FALSE, size |-> size]
  ELSE
    LET n == p[1] IN
    IF comp_(Ch(s), n.splitchar)
    THEN LET r == remove(n.lokid, s, size) IN
         [p |-> <<[n EXCEPT !.lokid = r.p]>>, ret |-> r.ret, size |-> r.size]
    ELSE IF equiv(Ch(s), n.splitchar)
    THEN IF Ch(Next1(s)) = NUL /\ n.pdata # NULL
         THEN LET dt == Detach(n, size) IN
              [p |-> <<dt.n>>, ret |-> TRUE, size |-> dt.size]
         ELSE LET r == remove(n.eqkid, Next1(s), size) IN
              [p |-> <<[n EXCEPT !.eqkid = r.p]>>, ret |-> r.ret,
               size |-> r.size]
    ELSE LET r == remove(n.hikid, s, size) IN
         [p |-> <<[n EXCEPT !.hikid = r.p]>>, ret |-> r.ret, size |-> r.size]

(* ---------------- clear ---------------- *)

RECURSIVE __destroy(_, _)
\* [p |-> p after the call, size |-> size_ after it]
__destroy(p, size) ==
  IF p = NULL THEN [p |-> p, size |-> size]
  ELSE
    LET lo == __destroy(p[1].lokid, size)
        eq == __destroy(p[1].eqkid, lo.size)
        hi == __destroy(p[1].hikid, eq.size)
    IN  [p |-> NULL,
         size |-> IF p[1].pdata # NULL THEN hi.size - 1 ELSE hi.size]

(* ---------------- traversal and the searches ---------------- *)

\* Visit delivering cur_str without the node's own character
Visit_cur(n, cur_str) ==
  IF n.pdata # NULL THEN << <<cur_str, n.pdata[1]>> >> ELSE <<>>

\* travel child first, then self if exist
Visit(n, cur_str) ==
  IF n.pdata # NULL
  THEN << <<Append(cur_str, n.splitchar), n.pdata[1]>> >>
  ELSE <<>>

RECURSIVE __travel(_, _)
\* the calls of f, in order, as (key, value) pairs
__travel(p, cur_str) ==
  IF p = NULL THEN <<>>
  ELSE __travel(p[1].lokid, cur_str)
       \o __travel(p[1].eqkid, Append(cur_str, p[1].splitchar))
       \o __travel(p[1].hikid, cur_str)
       \o Visit(p[1], cur_str)

\* PmTakes without the wildcard
PmTakes_literal(ch, branch) == branch

\* *s=='.' || ...: whether the pattern character takes the branch
PmTakes(ch, branch) == ch = Wildcard \/ branch

RECURSIVE __pmsearch(_, _, _)
\* what the call pushes back to c, in order
__pmsearch(p, s, cur_str) ==
  IF Ch(s) = NUL THEN <<>>
  ELSE IF p = NULL THEN <<>>
  ELSE
    LET n == p[1]
        str == Append(cur_str, n.splitchar)
    IN
    (IF PmTakes(Ch(s), comp_(Ch(s), n.splitchar))
     THEN __pmsearch(n.lokid, s, cur_str) ELSE <<>>)
    \o
    (IF PmTakes(Ch(s), equiv(Ch(s), n.splitchar))
     THEN IF Ch(Next1(s)) = NUL /\ n.pdata # NULL
          THEN << <<str, n.pdata[1]>> >>
          ELSE IF Ch(Next1(s)) # NUL
          THEN __pmsearch(n.eqkid, Next1(s), str)
          ELSE <<>>
     ELSE <<>>)
    \o
    (IF PmTakes(Ch(s), comp_(n.splitchar, Ch(s)))
     THEN __pmsearch(n.hikid, s, cur_str) ELSE <<>>)

\* Left charging nothing for a differing character
Left_uncharged(ch, splitchar, d) == d

\* the budget left after the node's character: if equals, d remain, else d-1
Left(ch, splitchar, d) == IF equiv(ch, splitchar) THEN d ELSE d - 1

RECURSIVE __near_search(_, _, _, _)
\* what the call pushes back to seq, in order
__near_search(p, s, d, cur_str) ==
  IF p = NULL \/ d < 0 THEN <<>>
  ELSE
    LET n == p[1]
        str == Append(cur_str, n.splitchar)
    IN
    (IF d > 0 \/ comp_(Ch(s), n.splitchar)
     THEN __near_search(n.lokid, s, d, cur_str) ELSE <<>>)
    \o
    __near_search(n.eqkid, Next1(s), Left(Ch(s), n.splitchar, d), str)
    \o
    (IF d > 0 \/ comp_(n.splitchar, Ch(s))
     THEN __near_search(n.hikid, s, d, cur_str) ELSE <<>>)
    \o
    (IF n.pdata # NULL
        /\ __strlen(Next1(s)) <= Left(Ch(s), n.splitchar, d)
     THEN << <<str, n.pdata[1]>> >> ELSE <<>>)

(* ---------------- size and empty ---------------- *)

size == size_

empty == size_ = 0

(* ---------------- the calls ---------------- *)

\* A run is a sequence of mutating calls on the container (root_, size_),
\* with a second container m to swap with, ended by at most one query: the
\* queries are const and leave the container as it was.  call is the last
\* call: its name, arguments and result; c is the sequence a query fills.

NoCall == [op |-> "none"]

Init ==
  /\ root_ = NULL
  /\ size_ = 0
  /\ m = [root_ |-> NULL, size_ |-> 0]
  /\ call = NoCall
  /\ c = <<>>
  /\ pc = "run"

\* the bound MaxNodes: the heap holds the nodes of both containers
Fits(p) == NodeCount(p) + NodeCount(m.root_) <= MaxNodes

\* insert(str, val); had: str had a payload before the call; re: the call
\* follows a successful remove(str)
Insert(str, val) ==
  /\ pc = "run"
  /\ LET r == __insert(root_, str, val, size_) IN
     /\ Fits(r.p)
     /\ root_' = r.p
     /\ size_' = r.size
     /\ call' = [op |-> "insert", str |-> str, t |-> val, ret |-> r.pos,
                 had |-> (find(root_, str) # NULL),
                 re |-> (call.op = "remove" /\ call.ret /\ call.str = str)]
  /\ UNCHANGED <<m, c, pc>>

\* operator[](str).  With pos left 0 (the empty string) `return *pos` is
\* undefined: the call hands back a reference to address 0, or it faults.
OpIndex(str) ==
  /\ pc = "run"
  /\ LET r == __insert_index(root_, str, size_) IN
     /\ Fits(r.p)
     /\ root_' = r.p
     /\ size_' = r.size
     /\ call' = [op |-> "index", str |-> str, ret |-> r.pos,
                 had |-> (find(root_, str) # NULL)]
     /\ IF r.pos = NULL THEN pc' \in {"run", "fault"} ELSE pc' = pc
  /\ UNCHANGED <<m, c>>

Remove(str) ==
  /\ pc = "run"
  /\ LET r == remove(root_, str, size_) IN
     /\ root_' = r.p
     /\ size_' = r.size
     /\ call' = [op |-> "remove", str |-> str, ret |-> r.ret]
  /\ UNCHANGED <<m, c, pc>>

Clear ==
  /\ pc = "run"
  /\ LET r == __destroy(root_, size_) IN
     /\ root_' = r.p
     /\ size_' = r.size
  /\ call' = [op |-> "clear"]
  /\ UNCHANGED <<m, c, pc>>

Swap ==
  /\ pc = "run"
  /\ root_' = m.root_
  /\ size_' = m.size_
  /\ m' = [root_ |-> root_, size_ |-> size_]
  /\ call' = [op |-> "swap"]
  /\ UNCHANGED <<c, pc>>

Sequence ==
  /\ pc = "run"
  /\ c' = __travel(root_, <<>>)
  /\ call' = [op |-> "sequence"]
  /\ pc' = "done"
  /\ UNCHANGED <<root_, size_, m>>

\* foreach(f), f recording its calls in c
Foreach ==
  /\ pc = "run"
  /\ c' = __travel(root_, <<>>)
  /\ call' = [op |-> "foreach"]
  /\ pc' = "done"
  /\ UNCHANGED <<root_, size_, m>>

Nearsearch(str, d) ==
  /\ pc = "run"
  /\ c' = __near_search(root_, str, d, <<>>)
  /\ call' = [op |-> "nearsearch", str |-> str, d |-> d]
  /\ pc' = "done"
  /\ UNCHANGED <<root_, size_, m>>

Pmsearch(str) ==
  /\ pc = "run"
  /\ c' = __pmsearch(root_, str, <<>>)
  /\ call' = [op |-> "pmsearch", str |-> str]
  /\ pc' = "done"
  /\ UNCHANGED <<root_, size_, m>>

Mutate ==
  \/ \E str \in AllKeys, val \in Vals : Insert(str, val)
  \/ \E str \in AllKeys : OpIndex(str)
  \/ \E str \in AllKeys : Remove(str)
  \/ Clear

Query ==
  \/ Sequence
  \/ Foreach
  \/ \E str \in Patterns, d \in 0..MaxD : Nearsearch(str, d)
  \/ \E str \in Patterns : Pmsearch(str)

Next == Mutate \/ Swap

NextQuery == Mutate \/ Query

\* the mutating calls of two containers
Spec == Init /\ [][Next]_vars

\* the mutating calls of one container and the queries on it
SpecQuery == Init /\ [][NextQuery]_vars

(* ---------------- what the claims speak of ---------------- *)

\* the keys find finds in the tree of p
Present(p) == {k \in AllKeys : find(p, k) # NULL}

\* the (key, value) pairs find finds in the tree of p
Pairs(p) == {<<k, find(p, k)[1]>> : k \in Present(p)}

RECURSIVE Shape(_)
\* the nodes of the tree of p, their characters and links, payloads left out
Shape(p) ==
  IF p = NULL THEN NULL
  ELSE <<[splitchar |-> p[1].splitchar, lokid |-> Shape(p[1].lokid),
          eqkid |-> Shape(p[1].eqkid), hikid |-> Shape(p[1].hikid)]>>

RECURSIVE PayloadCount(_)
\* the nodes of the tree of p that hold a payload
PayloadCount(p) ==
  IF p = NULL THEN 0
  ELSE (IF p[1].pdata # NULL THEN 1 ELSE 0) + PayloadCount(p[1].lokid)
       + PayloadCount(p[1].eqkid) + PayloadCount(p[1].hikid)

RECURSIVE PdataAt(_, _)
\* the payload pointer of the node that path leads to from p
PdataAt(p, path) ==
  IF p = NULL THEN NULL
  ELSE IF path = <<>> THEN p[1].pdata
  ELSE PdataAt(p[1][Head(path)], Tail(path))

Range(seq) == {seq[i] : i \in 1..Len(seq)}

NoDuplicates(seq) == \A i, j \in 1..Len(seq) : seq[i][1] = seq[j][1] => i = j

Min(a, b) == IF a < b THEN a ELSE b

\* x sorts before y, characters compared by comp_, a proper prefix first
KeyLess(x, y) ==
  \E i \in 1..Len(y) :
    /\ i <= Len(x) + 1
    /\ \A j \in 1..(i - 1) : x[j] = y[j]
    /\ (i = Len(x) + 1 \/ comp_(x[i], y[i]))

\* differing positions of k and pat, plus the difference of their lengths
Cost(k, pat) ==
  Cardinality({i \in 1..Min(Len(k), Len(pat)) : k[i] # pat[i]})
  + (IF Len(k) > Len(pat) THEN Len(k) - Len(pat) ELSE Len(pat) - Len(k))

\* k has the length of pat and agrees with it wherever pat has no wildcard
PmMatch(k, pat) ==
  /\ Len(k) = Len(pat)
  /\ \A i \in 1..Len(pat) : pat[i] = Wildcard \/ k[i] = pat[i]

Enumerated == call.op \in {"sequence", "foreach"}

(* ---------------- the claims ---------------- *)

\* C1: sequence and foreach deliver the present keys in ascending order:
\* a key delivered before another sorts before it.
C1_Sorted ==
  Enumerated =>
    \A i, j \in 1..Len(c) : i < j => KeyLess(c[i][1], c[j][1])

\* C7: sequence and foreach deliver exactly the present keys: each key find
\* finds is delivered once, with its current value, and no other key is.
C7_ExactEnumeration ==
  Enumerated => Range(c) = Pairs(root_) /\ NoDuplicates(c)

\* a sequence call that skips the node of a removed key and delivers two keys
C7_Witness ==
  /\ call.op = "sequence"
  /\ Len(c) = 2
  /\ NodeCount(root_) > size_

\* C2: nearsearch(p, d) returns exactly the pairs of the present keys whose
\* cost against p is at most d, each once.
C2_NearSearchExact ==
  call.op = "nearsearch" =>
    /\ Range(c) = {kv \in Pairs(root_) : Cost(kv[1], call.str) <= call.d}
    /\ NoDuplicates(c)

\* nearsearch with budget 1 returning the pattern itself, a key with one
\* substituted character and a key one character longer
C2_Witness ==
  /\ call.op = "nearsearch"
  /\ call.d = 1
  /\ \E x, y, z \in Range(c) :
       /\ x[1] = call.str
       /\ Len(y[1]) = Len(call.str) /\ Cost(y[1], call.str) = 1
       /\ Len(z[1]) = Len(call.str) + 1 /\ Cost(z[1], call.str) = 1

\* C3: pmsearch(p) returns exactly the pairs of the present keys of the length
\* of p that agree with p wherever p has no wildcard, each once.
C3_PmSearchExact ==
  call.op = "pmsearch" =>
    /\ Range(c) = {kv \in Pairs(root_) : PmMatch(kv[1], call.str)}
    /\ NoDuplicates(c)

\* a pattern with a wildcard and a literal that returns one present key and
\* leaves out another of the same length
C3_Witness ==
  /\ call.op = "pmsearch"
  /\ \E i, j \in 1..Len(call.str) :
       call.str[i] = Wildcard /\ call.str[j] # Wildcard
  /\ Len(c) = 1
  /\ \E k \in Present(root_) :
       Len(k) = Len(call.str) /\ k # c[1][1]

\* C4: insert(k, v) with k non-empty makes find(k) return v; the size grows
\* by 1 if k was absent, and if k was present the size and the nodes are the
\* same and only the payload of k changes.
C4_InsertFind ==
  [][(call'.op = "insert" /\ call'.str # <<>>) =>
       /\ find(root_', call'.str) = <<call'.t>>
       /\ (find(root_, call'.str) = NULL => size_' = size_ + 1)
       /\ (find(root_, call'.str) # NULL =>
             /\ size_' = size_
             /\ Shape(root_') = Shape(root_)
             /\ \A j \in AllKeys \ {call'.str} :
                  find(root_', j) = find(root_, j))]_vars

\* an insert that changed the value of a key already present
C4_Witness ==
  /\ call.op = "insert"
  /\ call.had
  /\ find(root_, call.str) = <<call.t>>
  /\ size_ = 2

\* C5: remove(k) of a present key returns true, find(k) is then absent and
\* the size 1 smaller; an insert(k, v2) right after it makes find(k) return
\* v2 and the size 1 larger, creates no node and leaves every other key as
\* it was.
C5_RemoveReinsert ==
  [][/\ (call'.op = "remove" /\ find(root_, call'.str) # NULL) =>
          /\ call'.ret = TRUE
          /\ find(root_', call'.str) = NULL
          /\ size_' = size_ - 1
     /\ (call.op = "remove" /\ call.ret /\ call'.op = "insert"
         /\ call'.str = call.str) =>
          /\ find(root_', call'.str) = <<call'.t>>
          /\ size_' = size_ + 1
          /\ Shape(root_') = Shape(root_)
          /\ \A j \in AllKeys \ {call'.str} :
               find(root_', j) = find(root_, j)]_vars

\* a key inserted again right after its removal, beside a present key that
\* shares its first character
C5_Witness ==
  /\ call.op = "insert"
  /\ call.re
  /\ find(root_, call.str) = <<call.t>>
  /\ \E j \in Present(root_) : j # call.str /\ j[1] = call.str[1]

\* C6: remove(k) removes no node and changes no link or split character,
\* and find(j) is the same for every other key j; when k is not present it
\* returns false and changes nothing.
C6_RemoveFrame ==
  [][call'.op = "remove" =>
       /\ Shape(root_') = Shape(root_)
       /\ \A j \in AllKeys \ {call'.str} : find(root_', j) = find(root_, j)
       /\ m' = m
       /\ (find(root_, call'.str) = NULL =>
             /\ call'.ret = FALSE
             /\ root_' = root_
             /\ size_' = size_)]_vars

\* a successful remove beside a present key that shares its first character
C6_Witness ==
  /\ call.op = "remove"
  /\ call.ret
  /\ \E j \in Present(root_) : j[1] = call.str[1]

\* C8: operator[] returns, for every key string, a handle that is not null
\* and leads to a payload present in the map; a payload attached by the call
\* is default-constructed and grows the size by 1.
C8_IndexNeverNull ==
  call.op = "index" =>
    /\ pc # "fault"
    /\ call.ret # NULL
    /\ PdataAt(root_, call.ret[1]) # NULL
    /\ PdataAt(root_, call.ret[1]) = find(root_, call.str)
    /\ (~call.had => find(root_, call.str) = <<DefaultT>>)

\* C9: insert("", v) returns a null handle and changes no size, node or
\* payload, and find("") is absent in every state.
C9_EmptyKey ==
  /\ [](find(root_, <<>>) = NULL)
  /\ [][(call'.op = "insert" /\ call'.str = <<>>) =>
          /\ call'.ret = NULL
          /\ root_' = root_
          /\ size_' = size_
          /\ m' = m]_vars

\* an insert of the empty string into a container that holds keys
C9_Witness ==
  /\ call.op = "insert"
  /\ call.str = <<>>
  /\ call.ret = NULL
  /\ size_ = 2

\* C10: size() is the number of nodes with a payload, which is the number of
\* keys find finds; empty() holds exactly when it is 0; clear() leaves no
\* node and size 0.
C10_SizeCounts ==
  /\ size = PayloadCount(root_)
  /\ size = Cardinality(Present(root_))
  /\ m.size_ = PayloadCount(m.root_)
  /\ m.size_ = Cardinality(Present(m.root_))
  /\ (empty <=> Present(root_) = {})
  /\ (call.op = "clear" => root_ = NULL /\ size = 0)

\* both containers hold keys and a node without payload, after a swap
C10_Witness ==
  /\ call.op = "swap"
  /\ size_ = 1
  /\ m.size_ = 1
  /\ NodeCount(root_) + NodeCount(m.root_) = 3

====
